---------------------------- MODULE Spec2Model ----------------------------
(***************************************************************************)
(* chimera-go: the per-session lifecycle engine of src/main.go.            *)
(*                                                                         *)
(*   Spec       the session lifecycle: handleOffer, the connection-state   *)
(*              handler, startFFmpeg, the registry and the stale-session   *)
(*              sweep, interleaved over NumSessions sessions.              *)
(*   FairSpec   Spec with the fairness of the goroutine scheduler.         *)
(*   SpecLock   the registry operations at the grain of their locks and    *)
(*              map accesses, called by NumCallers concurrent callers.     *)
(*   SpecOrder  SpecLock with the operations that walk the registry: the   *)
(*              sweep, cleanupAllSessions and handleSessions.              *)
(*   SpecStats  the metrics counters and the readers that report them.      *)
(*   SpecScan   the bitstream reframer: scanNALUs driven by bufio.Scanner  *)
(*              and the body of startFFmpeg's delivery loop.               *)
(*   SpecDown   Spec with the shutdown signal: cleanupAllSessions.          *)
(*   SpecScope  the lifecycle of NumIds sessions side by side, from offer   *)
(*              to teardown, without the sweep.                            *)
(*   FairSpecScan  SpecScan with the scanner's loop kept running.           *)
(*   SpecPace   the frame-rate control of the delivery loop against a      *)
(*              clock that advances between its steps.                     *)
(***************************************************************************)
EXTENDS Integers, Sequences, FiniteSets, TLC

(***************************************************************************)
(* Bounds of the model.                                                    *)
(***************************************************************************)
\* Sessions negotiated concurrently.
NumSessions == 1
\* Concurrent callers of the registry operations, and the ids they use.
NumCallers == 2
NumIds == 2
\* Frames the delivery loops count.
MaxFrames == 4
\* Longest encoder output, in bytes.
MaxStream == 7
\* bufio.Scanner's maximum token size (bufferSize*4 in the source), scaled.
MaxTokenSize == 6

\* time.Second in clock ticks, the last clock value, and the units one
\* delivery loop scans.
TicksPerSecond == 4
MaxClock == 7
MaxUnits == 4

\* len(nalu) > 4: a token of at most this length is not forwarded.
MinNaluLen == 4

\* The limits of handleOffer's validation.
MaxWidth == 3840
MaxHeight == 2160
MaxFPS == 144

\* The values a request carries: around both ends of each range.
Widths == {-1, 0, 1, MaxWidth, MaxWidth + 1}
Heights == {-1, 0, 1, MaxHeight, MaxHeight + 1}
Rates == {-1, 0, 1, MaxFPS, MaxFPS + 1}

\* The frame rates of the paced loops: some divide time.Second, some do not.
PaceRates == 1..(TicksPerSecond - 1)

\* A byte is 0x00, 0x01 or "any other value" (2).
Bytes == {0, 1, 2}

Sessions == 1..NumSessions
Callers == 1..NumCallers
Ids == 1..NumIds

Streams == UNION {[1..n -> Bytes] : n \in 0..MaxStream}

(***************************************************************************)
(* Byte-slice helpers (Go indices are 0-based).                            *)
(***************************************************************************)
At(data, i) == data[i + 1]

\* data[lo:hi]
Slice(data, lo, hi) == SubSeq(data, lo + 1, hi)

\* bytes.HasPrefix
HasPrefix(data, p) ==
    /\ Len(data) >= Len(p)
    /\ \A k \in 1..Len(p) : data[k] = p[k]

StartCode4 == <<0, 0, 0, 1>>
StartCode3 == <<0, 0, 1>>

Min(S) == CHOOSE x \in S : \A y \in S : x <= y

(***************************************************************************)
(* scanNALUs, the bufio.SplitFunc.                                         *)
(***************************************************************************)
\* (advance, token, nil); has = FALSE is the nil token.
Ret(adv, tok) == [advance |-> adv, token |-> tok, has |-> TRUE]
NoToken == [advance |-> 0, token |-> <<>>, has |-> FALSE]
NoRet == [advance |-> -1, token |-> <<>>, has |-> FALSE]

\* data[i] == 0x00 && data[i+1] == 0x00 && data[i+2] == 0x00 && data[i+3] == 0x01
IsCode4At(data, i) ==
    /\ At(data, i) = 0 /\ At(data, i + 1) = 0
    /\ At(data, i + 2) = 0 /\ At(data, i + 3) = 1

\* i <= len(data)-3 && data[i] == 0x00 && data[i+1] == 0x00 && data[i+2] == 0x01
IsCode3At(data, i) ==
    /\ i <= Len(data) - 3
    /\ At(data, i) = 0 /\ At(data, i + 1) = 0 /\ At(data, i + 2) = 1

\* The condition of the inner loop that follows a leading 4-byte code.
NextAfter4(data, j) ==
    /\ At(data, j) = 0 /\ At(data, j + 1) = 0
    /\ \/ (At(data, j + 2) = 0 /\ At(data, j + 3) = 1)
       \/ (j <= Len(data) - 3 /\ At(data, j + 2) = 1)

\* The condition of the inner loop that follows a leading 3-byte code.
NextAfter3(data, j) ==
    /\ At(data, j) = 0 /\ At(data, j + 1) = 0
    /\ \/ At(data, j + 2) = 1
       \/ (j <= Len(data) - 4 /\ At(data, j + 2) = 0 /\ At(data, j + 3) = 1)

\* A 3-byte branch whose unit leaves the leading marker out.
Branch3Mutant(data, i) ==
    IF IsCode3At(data, i)
    THEN IF i > 0
         THEN Ret(i, Slice(data, 0, i))
         ELSE LET J == {j \in (i + 3)..(Len(data) - 3) : NextAfter3(data, j)}
              IN  IF J # {} THEN Ret(Min(J), Slice(data, i + 3, Min(J))) ELSE NoRet
    ELSE NoRet

\* The 3-byte branch of iteration i of the outer loop.
Branch3(data, i) ==
    IF IsCode3At(data, i)
    THEN IF i > 0
         THEN Ret(i, Slice(data, 0, i))
         ELSE LET J == {j \in (i + 3)..(Len(data) - 3) : NextAfter3(data, j)}
              IN  IF J # {} THEN Ret(Min(J), Slice(data, i, Min(J))) ELSE NoRet
    ELSE NoRet

\* Iteration i of the outer loop: its return value, or NoRet when it falls
\* through to iteration i+1.
IterationAt(data, i) ==
    IF IsCode4At(data, i)
    THEN IF i > 0
         THEN Ret(i, Slice(data, 0, i))
         ELSE LET J == {j \in (i + 4)..(Len(data) - 4) : NextAfter4(data, j)}
              IN  IF J # {} THEN Ret(Min(J), Slice(data, i, Min(J)))
                  ELSE Branch3(data, i)
    ELSE Branch3(data, i)

\* The tail of scanNALUs without the flush at end of stream.
AtEndOfDataMutant(data, atEOF) == NoToken
\* The tail of scanNALUs, and its head for len(data) < 4.
AtEndOfData(data, atEOF) ==
    IF atEOF /\ Len(data) > 0 THEN Ret(Len(data), data) ELSE NoToken

scanNALUs(data, atEOF) ==
    IF Len(data) < 4
    THEN AtEndOfData(data, atEOF)
    ELSE LET I == {i \in 0..(Len(data) - 4) : IterationAt(data, i) # NoRet}
         IN  IF I # {} THEN IterationAt(data, Min(I))
             ELSE AtEndOfData(data, atEOF)

\* The sample handed on with no start code added.
NaluWithStartMutant(nalu) == nalu
\* "Ensure NALU has start code": the sample handed to track.WriteSample.
NaluWithStart(nalu) ==
    IF ~HasPrefix(nalu, StartCode4) /\ ~HasPrefix(nalu, StartCode3)
    THEN StartCode4 \o nalu
    ELSE nalu

(***************************************************************************)
(* State.                                                                  *)
(***************************************************************************)
VARIABLES
    \* ---- one encoder output stream and the bufio.Scanner reading it ----
    stream,          \* all the bytes the encoder writes before closing stdout
    rdStart,         \* bytes of the stream the scanner has consumed (s.start)
    rdEnd,           \* bytes of the stream read into the buffer (s.end)
    scanEOF,         \* the scanner has seen io.EOF (s.err)
    scanSt,          \* "split" | "fill" | "done" | "toolong"
    tokens,          \* the tokens scanner.Scan() returned, in order
    samples,         \* the samples handed to track.WriteSample, in order
    framesProcessed, \* metrics counter
    framesDropped,   \* metrics counter
    \* ---- the sessions ----
    sessions,        \* the ids in the registry map
    FFmpegCmd,       \* session.FFmpegCmd != nil
    cancelled,       \* the session context is done (sessionCancel was called)
    pcState,         \* pc.ConnectionState()
    offer,           \* handleOffer: "none" | "rejected" | "nopeer" | "setup" |
                     \*              "answered" | "failed"
    old,             \* a sweep has found the session older than 10 minutes
    connNotif,       \* Connected notifications whose handler has not run
    hPending,        \* terminal notifications whose handler has not begun
    hCancelled,      \* terminal handlers past sessionCancel()
    hUnreg,          \* terminal handlers past unregisterSession()
    ff,              \* the startFFmpeg goroutine's position
    proc,            \* the subprocess: "none" | "running" | "exited" | "reaped"
    regKills,        \* Process.Kill() calls made through the session record
    loopKills,       \* Process.Kill() calls of the delivery loop
    activeStreams,   \* metrics gauge
    \* ---- history, read by the properties only ----
    decs,            \* decrements of the gauge made for the session
    \* ---- the registry operations, step by step ----
    lockOwner,       \* the caller holding sessionsLock for writing, 0 when none
    lockReaders,     \* the callers holding sessionsLock for reading
    mutex,           \* each session.mutex: its writer (0 when none), its readers
    call,            \* each caller's operation: its pc, its id, its view of the map
    issued,          \* the ids registerSession was called with
    regDone,         \* the ids whose registerSession call returned
    unregDone,       \* the ids for which an unregisterSession call returned
    \* ---- the metrics and their readers ----
    errPending,      \* the delivery loops that are between counting a frame
                     \* as processed and counting its failed write as dropped
    stats,           \* handleStats / logMetrics: pc, the values loaded, the rate
    \* ---- the frame-rate control of one delivery loop ----
    clock,           \* the monotonic clock time.Now() reads, in ticks
    pace,            \* the loop: pc, fps, lastFrameTime, now, the units scanned
    writes,          \* the track.WriteSample calls: when made, the reading
                     \* they were admitted on, the unit written, the failure
    skipped          \* the units consumed and not forwarded

scanVars == <<stream, rdStart, rdEnd, scanEOF, scanSt, tokens, samples,
              framesProcessed, framesDropped>>

lifeVars == <<sessions, FFmpegCmd, cancelled, pcState, offer, old, connNotif,
              hPending, hCancelled, hUnreg, ff, proc, regKills, loopKills, activeStreams, decs>>

lockVars == <<lockOwner, lockReaders, mutex, call, issued, regDone, unregDone>>

statsVars == <<errPending, stats>>

paceVars == <<clock, pace, writes, skipped>>

vars == <<scanVars, lifeVars, lockVars, statsVars, paceVars>>

\* The scanner's unconsumed data, s.buf[s.start:s.end].
Buffered == SubSeq(stream, rdStart + 1, rdEnd)

\* No stream is being read.
ScanIdle ==
    /\ stream = <<>>
    /\ rdStart = 0
    /\ rdEnd = 0
    /\ scanEOF = FALSE
    /\ scanSt = "done"
    /\ tokens = <<>>
    /\ samples = <<>>
    /\ framesProcessed = 0
    /\ framesDropped = 0

ScanStart ==
    /\ stream \in Streams
    /\ rdStart = 0
    /\ rdEnd = 0
    /\ scanEOF = FALSE
    /\ scanSt = "fill"
    /\ tokens = <<>>
    /\ samples = <<>>
    /\ framesProcessed = 0
    /\ framesDropped = 0

(***************************************************************************)
(* One iteration of the delivery loop's body once Scan() returned true:    *)
(* the unit is forwarded when it is long enough and the frame interval     *)
(* has elapsed (due); the write may fail (writeErr).                       *)
(***************************************************************************)
Deliver(nalu, due, writeErr) ==
    IF Len(nalu) > MinNaluLen /\ due
    THEN /\ samples' = Append(samples, NaluWithStart(nalu))
         /\ framesProcessed' = framesProcessed + 1
         /\ framesDropped' = IF writeErr THEN framesDropped + 1 ELSE framesDropped
    ELSE UNCHANGED <<samples, framesProcessed, framesDropped>>

\* bufio.Scanner.Scan, the call of the split function on the buffered data.
ScanSplit ==
    /\ scanSt = "split"
    /\ LET r == scanNALUs(Buffered, scanEOF)
       IN  IF r.has
           THEN /\ rdStart' = rdStart + r.advance
                /\ tokens' = Append(tokens, r.token)
                /\ scanSt' = IF rdEnd > rdStart + r.advance \/ scanEOF
                             THEN "split" ELSE "fill"
                /\ \E due \in BOOLEAN, writeErr \in BOOLEAN :
                       Deliver(r.token, due, writeErr)
                /\ UNCHANGED <<stream, rdEnd, scanEOF>>
           ELSE /\ scanSt' = IF scanEOF THEN "done" ELSE "fill"
                /\ UNCHANGED <<stream, rdStart, rdEnd, scanEOF, tokens, samples,
                               framesProcessed, framesDropped>>

\* bufio.Scanner.Scan, reading more of the pipe: n more bytes arrive.
ScanFill(n) ==
    /\ scanSt = "fill"
    /\ rdEnd - rdStart < MaxTokenSize
    /\ rdEnd + n <= Len(stream)
    /\ rdEnd - rdStart + n <= MaxTokenSize
    /\ rdEnd' = rdEnd + n
    /\ scanSt' = "split"
    /\ UNCHANGED <<stream, rdStart, scanEOF, tokens, samples,
                   framesProcessed, framesDropped>>

\* The read returns io.EOF: the encoder closed its stdout.
ScanReadEOF ==
    /\ scanSt = "fill"
    /\ rdEnd - rdStart < MaxTokenSize
    /\ rdEnd = Len(stream)
    /\ scanEOF' = TRUE
    /\ scanSt' = "split"
    /\ UNCHANGED <<stream, rdStart, rdEnd, tokens, samples,
                   framesProcessed, framesDropped>>

\* The buffer is full and the split function asked for more: ErrTooLong,
\* Scan() returns false and the delivery loop returns.
ScanTooLong ==
    /\ scanSt = "fill"
    /\ rdEnd - rdStart >= MaxTokenSize
    /\ scanSt' = "toolong"
    /\ UNCHANGED <<stream, rdStart, rdEnd, scanEOF, tokens, samples,
                   framesProcessed, framesDropped>>

ScanNext ==
    \/ ScanSplit /\ UNCHANGED <<lifeVars, lockVars, statsVars, paceVars>>
    \/ \E n \in 1..MaxTokenSize : ScanFill(n) /\ UNCHANGED <<lifeVars, lockVars, statsVars, paceVars>>
    \/ ScanReadEOF /\ UNCHANGED <<lifeVars, lockVars, statsVars, paceVars>>
    \/ ScanTooLong /\ UNCHANGED <<lifeVars, lockVars, statsVars, paceVars>>

(***************************************************************************)
(* The session lifecycle.                                                  *)
(***************************************************************************)
LifeInitOver(S) ==
    /\ sessions = {}
    /\ FFmpegCmd = [s \in S |-> FALSE]
    /\ cancelled = [s \in S |-> FALSE]
    /\ pcState = [s \in S |-> "none"]
    /\ offer = [s \in S |-> "none"]
    /\ old = [s \in S |-> FALSE]
    /\ connNotif = [s \in S |-> 0]
    /\ hPending = [s \in S |-> 0]
    /\ hCancelled = [s \in S |-> 0]
    /\ hUnreg = [s \in S |-> 0]
    /\ ff = [s \in S |-> "none"]
    /\ proc = [s \in S |-> "none"]
    /\ regKills = [s \in S |-> 0]
    /\ loopKills = [s \in S |-> 0]
    /\ activeStreams = 0
    /\ decs = [s \in S |-> 0]

LifeInit == LifeInitOver(Sessions)

\* No registry operation is in progress.
LockIdle ==
    /\ lockOwner = 0
    /\ lockReaders = {}
    /\ mutex = [id \in Ids |-> [w |-> 0, r |-> {}]]
    /\ call = [c \in Callers |-> [pc |-> "idle", op |-> "none", id |-> 0, view |-> {}]]
    /\ issued = {}
    /\ regDone = {}
    /\ unregDone = {}

\* No delivery loop is being paced.
PaceIdle ==
    /\ clock = 0
    /\ pace = [pc |-> "idle", fps |-> 1, lastFrameTime |-> 0, now |-> 0, unit |-> 0]
    /\ writes = <<>>
    /\ skipped = {}

\* No metrics reader is running.
StatsIdle ==
    /\ errPending = 0
    /\ stats = [pc |-> "idle", processed |-> 0, dropped |-> 0,
                rate |-> [num |-> 0, den |-> 1]]

\* Disconnected, Failed, Closed: the states the handler and the sweep tear
\* a session down for.
Terminal(state) == state \in {"disconnected", "failed", "closed"}

\* Every Process.Kill() call the program makes for the session's subprocess.
\* (exec.CommandContext kills the command too once its context is done; the
\* model counts the kills main.go issues itself and relies on no other.)
KillsSent(s) == regKills[s] + loopKills[s]

\* ctx.Done() of the context startFFmpeg was given: the session context.
CtxDoneMutant(s) == FALSE
CtxDone(s) == cancelled[s]

\* sessionCancel() / session.Cancel()
Cancel(S) == cancelled' = [s \in DOMAIN cancelled |-> cancelled[s] \/ s \in S]

\* unregisterSession as a function of the registry: the registry it leaves
\* and the kills it issues.
UnregisterResultMutant(reg, cmd, id) ==
    [sessions |-> reg \ {id}, kill |-> IF cmd[id] THEN 1 ELSE 0]
UnregisterResult(reg, cmd, id) ==
    IF id \in reg
    THEN [sessions |-> reg \ {id}, kill |-> IF cmd[id] THEN 1 ELSE 0]
    ELSE [sessions |-> reg, kill |-> 0]

\* An unregisterSession that empties the registry.
unregisterSessionMutant(id) ==
    /\ sessions' = {}
    /\ regKills' = [s \in DOMAIN regKills |->
                       regKills[s] + IF s \in sessions /\ FFmpegCmd[s] THEN 1 ELSE 0]

unregisterSession(id) ==
    LET r == UnregisterResult(sessions, FFmpegCmd, id)
    IN  /\ sessions' = r.sessions
        /\ regKills' = [regKills EXCEPT ![id] = @ + r.kill]

\* pc.Close(): the transport reports Closed once, to a handler of its own.
Close(s) ==
    IF pcState[s] # "closed"
    THEN /\ pcState' = [pcState EXCEPT ![s] = "closed"]
         /\ hPending' = [hPending EXCEPT ![s] = @ + 1]
    ELSE UNCHANGED <<pcState, hPending>>

\* req.Width <= 0 || req.Width > 3840 || req.Height <= 0 || req.Height > 2160
InvalidResolutionMutant(width, height) ==
    width <= 0 \/ height <= 0 \/ height > MaxHeight
InvalidResolution(width, height) ==
    width <= 0 \/ width > MaxWidth \/ height <= 0 \/ height > MaxHeight

\* req.FPS <= 0 || req.FPS > 144
InvalidFPS(fps) == fps <= 0 \/ fps > MaxFPS

offerUnchanged == <<sessions, FFmpegCmd, cancelled, old, connNotif, hPending,
                    hCancelled, hUnreg, ff, proc, regKills, loopKills,
                    activeStreams, decs>>

\* handleOffer answers 400 to a request that fails the validation.
OfferReject(s, width, height, fps) ==
    /\ offer[s] = "none"
    /\ InvalidResolution(width, height) \/ InvalidFPS(fps)
    /\ offer' = [offer EXCEPT ![s] = "rejected"]
    /\ UNCHANGED <<offerUnchanged, pcState>>

\* webrtc.NewPeerConnection fails: handleOffer answers 500, nothing of the
\* session exists yet.
OfferPeerFail(s, width, height, fps) ==
    /\ offer[s] = "none"
    /\ ~InvalidResolution(width, height)
    /\ ~InvalidFPS(fps)
    /\ offer' = [offer EXCEPT ![s] = "nopeer"]
    /\ UNCHANGED <<offerUnchanged, pcState>>

\* handleOffer that sets the handler up without registerSession.
OfferAcceptMutant(s, width, height, fps) ==
    /\ offer[s] = "none"
    /\ ~InvalidResolution(width, height)
    /\ ~InvalidFPS(fps)
    /\ offer' = [offer EXCEPT ![s] = "setup"]
    /\ pcState' = [pcState EXCEPT ![s] = "new"]
    /\ UNCHANGED offerUnchanged

\* handleOffer up to the registration of the connection-state handler.
OfferAccept(s, width, height, fps) ==
    /\ offer[s] = "none"
    /\ ~InvalidResolution(width, height)
    /\ ~InvalidFPS(fps)
    /\ offer' = [offer EXCEPT ![s] = "setup"]
    /\ pcState' = [pcState EXCEPT ![s] = "new"]
    /\ sessions' = sessions \cup {s}
    /\ UNCHANGED <<FFmpegCmd, cancelled, old, connNotif, hPending, hCancelled,
                   hUnreg, ff, proc, regKills, loopKills,
                   activeStreams, decs>>

\* A failure path that returns without unregisterSession.
OfferSetupFailMutant(s) ==
    /\ offer[s] = "setup"
    /\ offer' = [offer EXCEPT ![s] = "failed"]
    /\ Cancel({s})
    /\ Close(s)
    /\ UNCHANGED <<sessions, regKills, FFmpegCmd, old, connNotif, hCancelled,
                   hUnreg, ff, proc, loopKills, activeStreams, decs>>

\* A setup step of handleOffer fails: sessionCancel, unregisterSession,
\* pc.Close.
OfferSetupFail(s) ==
    /\ offer[s] = "setup"
    /\ offer' = [offer EXCEPT ![s] = "failed"]
    /\ Cancel({s})
    /\ unregisterSession(s)
    /\ Close(s)
    /\ UNCHANGED <<FFmpegCmd, old, connNotif, hCancelled, hUnreg, ff, proc,
                   loopKills, activeStreams, decs>>

\* handleOffer answers and launches the startFFmpeg goroutine.
OfferAnswer(s) ==
    /\ offer[s] = "setup"
    /\ offer' = [offer EXCEPT ![s] = "answered"]
    /\ ff' = [ff EXCEPT ![s] = "sleep"]
    /\ UNCHANGED <<sessions, FFmpegCmd, cancelled, pcState, old, connNotif,
                   hPending, hCancelled, hUnreg, proc, regKills, loopKills, activeStreams, decs>>

\* The connection states the transport moves through by itself.
TransportStep(from, to) ==
    \/ from = "new" /\ to = "connecting"
    \/ from = "connecting" /\ to \in {"connected", "failed"}
    \/ from = "connected" /\ to = "disconnected"
    \/ from = "disconnected" /\ to = "failed"

\* The transport changes state and notifies the handler in a goroutine.
TransportChange(s, to) ==
    /\ offer[s] = "answered"
    /\ TransportStep(pcState[s], to)
    /\ pcState' = [pcState EXCEPT ![s] = to]
    /\ connNotif' = [connNotif EXCEPT ![s] = IF to = "connected" THEN @ + 1 ELSE @]
    /\ hPending' = [hPending EXCEPT ![s] = IF Terminal(to) THEN @ + 1 ELSE @]
    /\ UNCHANGED <<sessions, FFmpegCmd, cancelled, offer, old, hCancelled,
                   hUnreg, ff, proc, regKills, loopKills,
                   activeStreams, decs>>

\* The handler, case Connected.
HandleConnected(s) ==
    /\ connNotif[s] > 0
    /\ connNotif' = [connNotif EXCEPT ![s] = @ - 1]
    /\ activeStreams' = activeStreams + 1
    /\ UNCHANGED <<sessions, FFmpegCmd, cancelled, pcState, offer, old,
                   hPending, hCancelled, hUnreg, ff, proc, regKills, loopKills, decs>>

\* The handler, case Disconnected, Failed, Closed: the gauge and
\* sessionCancel().
HandleTerminalCancel(s) ==
    /\ hPending[s] > 0
    /\ hPending' = [hPending EXCEPT ![s] = @ - 1]
    /\ hCancelled' = [hCancelled EXCEPT ![s] = @ + 1]
    /\ activeStreams' = activeStreams - 1
    /\ decs' = [decs EXCEPT ![s] = @ + 1]
    /\ Cancel({s})
    /\ UNCHANGED <<sessions, FFmpegCmd, pcState, offer, old, connNotif, hUnreg,
                   ff, proc, regKills, loopKills>>

\* ... unregisterSession(sessionID). Closed is final: a handler that finds
\* the connection closed here has nothing left to do.
HandleTerminalUnregister(s) ==
    /\ hCancelled[s] > 0
    /\ hCancelled' = [hCancelled EXCEPT ![s] = @ - 1]
    /\ hUnreg' = [hUnreg EXCEPT ![s] = IF pcState[s] = "closed" THEN @ ELSE @ + 1]
    /\ unregisterSession(s)
    /\ UNCHANGED <<FFmpegCmd, cancelled, pcState, offer, old, connNotif,
                   hPending, ff, proc, loopKills, activeStreams, decs>>

\* A handler that returns without closing the transport.
HandleTerminalCloseMutant(s) ==
    /\ hUnreg[s] > 0
    /\ hUnreg' = [hUnreg EXCEPT ![s] = @ - 1]
    /\ UNCHANGED <<pcState, hPending, sessions, FFmpegCmd, cancelled, offer, old,
                   connNotif, hCancelled, ff, proc, regKills, loopKills,
                   activeStreams, decs>>

\* ... pc.Close() unless the connection is closed.
HandleTerminalClose(s) ==
    /\ hUnreg[s] > 0
    /\ hUnreg' = [hUnreg EXCEPT ![s] = @ - 1]
    /\ Close(s)
    /\ UNCHANGED <<sessions, FFmpegCmd, cancelled, offer, old, connNotif,
                   hCancelled, ff, proc, regKills, loopKills,
                   activeStreams, decs>>

ffUnchanged == <<sessions, cancelled, pcState, offer, old, connNotif, hPending,
                 hCancelled, hUnreg, regKills, activeStreams,
                 decs>>

\* startFFmpeg after the 500 ms sleep: the check of ctx.Done().
FFmpegCheck(s) ==
    /\ ff[s] = "sleep"
    /\ ff' = [ff EXCEPT ![s] = IF CtxDone(s) THEN "done" ELSE "checked"]
    /\ UNCHANGED <<ffUnchanged, FFmpegCmd, proc, loopKills>>

\* cmd.Start() whose failure is not noticed: startFFmpeg goes on to attach
\* the command.
FFmpegStartMutant(s, ok, seen) ==
    /\ ff[s] = "checked"
    /\ ff' = [ff EXCEPT ![s] = "started"]
    /\ IF ok /\ ~(CtxDone(s) /\ seen)
       THEN proc' = [proc EXCEPT ![s] = "running"]
       ELSE UNCHANGED proc
    /\ UNCHANGED <<ffUnchanged, FFmpegCmd, loopKills>>

\* cmd.Start(): the spawn fails (ok = FALSE) or succeeds. exec refuses to
\* start under a context it sees done, and a cancellation that lands after
\* it looked is not seen (seen = FALSE).
FFmpegStart(s, ok, seen) ==
    /\ ff[s] = "checked"
    /\ IF ok /\ ~(CtxDone(s) /\ seen)
       THEN /\ ff' = [ff EXCEPT ![s] = "started"]
            /\ proc' = [proc EXCEPT ![s] = "running"]
       ELSE /\ ff' = [ff EXCEPT ![s] = "done"]
            /\ UNCHANGED proc
    /\ UNCHANGED <<ffUnchanged, FFmpegCmd, loopKills>>

\* updateSessionFFmpeg(sessionID, cmd)
updateSessionFFmpeg(s) ==
    /\ ff[s] = "started"
    /\ ff' = [ff EXCEPT ![s] = "loop"]
    /\ FFmpegCmd' = [FFmpegCmd EXCEPT ![s] = @ \/ s \in sessions]
    /\ UNCHANGED <<ffUnchanged, proc, loopKills>>

\* The delivery loop's select: on ctx.Done() it kills the subprocess, else
\* it calls scanner.Scan().
FFmpegSelect(s) ==
    /\ ff[s] = "loop"
    /\ IF CtxDone(s)
       THEN /\ ff' = [ff EXCEPT ![s] = "wait"]
            /\ loopKills' = [loopKills EXCEPT ![s] = @ + 1]
       ELSE /\ ff' = [ff EXCEPT ![s] = "scan"]
            /\ UNCHANGED loopKills
    /\ UNCHANGED <<ffUnchanged, FFmpegCmd, proc>>

\* cmd.Wait() after the kill: the killed process exits, Wait returns and
\* so does startFFmpeg.
FFmpegWait(s) ==
    /\ ff[s] = "wait"
    /\ ff' = [ff EXCEPT ![s] = "done"]
    /\ proc' = [proc EXCEPT ![s] = "reaped"]
    /\ UNCHANGED <<ffUnchanged, FFmpegCmd, loopKills>>

\* scanner.Scan() returns a unit of the running encoder.
FFmpegScanUnit(s) ==
    /\ ff[s] = "scan"
    /\ proc[s] = "running"
    /\ ff' = [ff EXCEPT ![s] = "loop"]
    /\ UNCHANGED <<ffUnchanged, FFmpegCmd, proc, loopKills>>

\* scanner.Scan() returns false: the encoder's stdout is closed. The loop
\* returns.
FFmpegScanEnd(s) ==
    /\ ff[s] = "scan"
    /\ proc[s] = "exited"
    /\ ff' = [ff EXCEPT ![s] = "done"]
    /\ UNCHANGED <<ffUnchanged, FFmpegCmd, proc, loopKills>>

\* The encoder process exits, killed or by itself.
ProcessExit(s) ==
    /\ proc[s] = "running"
    /\ ff[s] # "wait"
    /\ proc' = [proc EXCEPT ![s] = "exited"]
    /\ UNCHANGED <<sessions, FFmpegCmd, cancelled, pcState, offer, old,
                   connNotif, hPending, hCancelled, hUnreg, ff, regKills,
                   loopKills, activeStreams, decs>>

\* The sweep's test of one registered session, aged the sessions that are
\* older than 10 minutes at the sweep's time.Now().
IsStaleMutant(s, aged) == s \in aged /\ pcState[s] \in {"failed", "closed"}
IsStale(s, aged) == s \in aged /\ Terminal(pcState[s])

\* A sweep that evicts without session.Cancel().
cleanupStaleSessionsMutant(aged) ==
    LET stale == {s \in sessions : IsStale(s, aged)}
    IN  /\ \A s \in sessions : old[s] => s \in aged
        /\ old' = [s \in Sessions |-> old[s] \/ s \in aged]
        /\ regKills' = [s \in Sessions |->
              regKills[s] + IF s \in stale /\ FFmpegCmd[s] THEN 1 ELSE 0]
        /\ sessions' = sessions \ stale
        /\ UNCHANGED <<cancelled, FFmpegCmd, pcState, offer, connNotif, hPending,
                       hCancelled, hUnreg, ff, proc, loopKills,
                       activeStreams, decs>>

\* One tick of cleanupStaleSessions. The clock is an input: the sessions it
\* finds older than 10 minutes, which stay so.
cleanupStaleSessions(aged) ==
    LET stale == {s \in sessions : IsStale(s, aged)}
    IN  /\ \A s \in sessions : old[s] => s \in aged
        /\ old' = [s \in Sessions |-> old[s] \/ s \in aged]
        /\ Cancel(stale)
        /\ regKills' = [s \in Sessions |->
              regKills[s] + IF s \in stale /\ FFmpegCmd[s] THEN 1 ELSE 0]
        /\ sessions' = sessions \ stale
        /\ UNCHANGED <<FFmpegCmd, pcState, offer, connNotif, hPending,
                       hCancelled, hUnreg, ff, proc, loopKills,
                       activeStreams, decs>>

\* cleanupAllSessions, on the shutdown signal: every registered session is
\* cancelled, its attached subprocess killed, its transport closed unless
\* it is closed, and its entry deleted.
cleanupAllSessions ==
    /\ Cancel(sessions)
    /\ regKills' = [s \in DOMAIN regKills |->
          regKills[s] + IF s \in sessions /\ FFmpegCmd[s] THEN 1 ELSE 0]
    /\ pcState' = [s \in DOMAIN pcState |->
          IF s \in sessions THEN "closed" ELSE pcState[s]]
    /\ hPending' = [s \in DOMAIN hPending |->
          hPending[s] + IF s \in sessions /\ pcState[s] # "closed" THEN 1 ELSE 0]
    /\ sessions' = {}
    /\ UNCHANGED <<FFmpegCmd, offer, old, connNotif, hCancelled, hUnreg, ff,
                   proc, loopKills, activeStreams, decs>>

Handler(s) ==
    \/ HandleConnected(s)
    \/ HandleTerminalCancel(s)
    \/ HandleTerminalUnregister(s)
    \/ HandleTerminalClose(s)

StartFFmpeg(s) ==
    \/ FFmpegCheck(s)
    \/ updateSessionFFmpeg(s)
    \/ FFmpegSelect(s)
    \/ FFmpegWait(s)
    \/ FFmpegScanEnd(s)

Next ==
    \/ \E s \in Sessions, width \in Widths, height \in Heights, fps \in Rates :
          OfferReject(s, width, height, fps) /\ UNCHANGED <<scanVars, lockVars, statsVars, paceVars>>
    \/ \E s \in Sessions, width \in Widths, height \in Heights, fps \in Rates :
          OfferPeerFail(s, width, height, fps) /\ UNCHANGED <<scanVars, lockVars, statsVars, paceVars>>
    \/ \E s \in Sessions, width \in Widths, height \in Heights, fps \in Rates :
          OfferAccept(s, width, height, fps) /\ UNCHANGED <<scanVars, lockVars, statsVars, paceVars>>
    \/ \E s \in Sessions : OfferSetupFail(s) /\ UNCHANGED <<scanVars, lockVars, statsVars, paceVars>>
    \/ \E s \in Sessions : OfferAnswer(s) /\ UNCHANGED <<scanVars, lockVars, statsVars, paceVars>>
    \/ \E s \in Sessions, to \in {"connecting", "connected", "disconnected", "failed"} :
          TransportChange(s, to) /\ UNCHANGED <<scanVars, lockVars, statsVars, paceVars>>
    \/ \E s \in Sessions : Handler(s) /\ UNCHANGED <<scanVars, lockVars, statsVars, paceVars>>
    \/ \E s \in Sessions : StartFFmpeg(s) /\ UNCHANGED <<scanVars, lockVars, statsVars, paceVars>>
    \/ \E s \in Sessions, ok \in BOOLEAN, seen \in BOOLEAN :
          FFmpegStart(s, ok, seen) /\ UNCHANGED <<scanVars, lockVars, statsVars, paceVars>>
    \/ \E s \in Sessions : FFmpegScanUnit(s) /\ UNCHANGED <<scanVars, lockVars, statsVars, paceVars>>
    \/ \E s \in Sessions : ProcessExit(s) /\ UNCHANGED <<scanVars, lockVars, statsVars, paceVars>>
    \/ \E aged \in SUBSET sessions :
          cleanupStaleSessions(aged) /\ UNCHANGED <<scanVars, lockVars, statsVars, paceVars>>

(***************************************************************************)
(* The registry operations at the grain of their locks. sessionsLock and   *)
(* each session.mutex are sync.RWMutex: one writer or any number of        *)
(* readers. A map access is a read of the map followed by a write of the   *)
(* changed map: unlocked, two of them race.                                *)
(***************************************************************************)

\* sessionsLock.Lock() returns only while no caller holds the lock.
LockFreeMutant == TRUE
LockFree == lockOwner = 0 /\ lockReaders = {}

\* sessionsLock.RLock() returns only while no writer holds the lock.
RLockFree == lockOwner = 0

\* session.mutex.Lock() and session.mutex.RLock() of session id.
MutexFree(id) == mutex[id].w = 0 /\ mutex[id].r = {}
MutexRFree(id) == mutex[id].w = 0

\* The callers between sessionsLock.Lock() or RLock() and the deferred
\* Unlock().
InLock(c) ==
    call[c].pc \in {"regRead", "regWrite", "regUnlock", "unregLookup",
                    "unregMutex", "unregKill", "unregRead", "unregWrite",
                    "unregUnlock", "updLookup", "updMutex", "updSet",
                    "updUnlock", "itNext", "itMutex", "itBody", "itUnlock"}

\* The callers that hold the mutex of a session.
HoldsMutex(c) == \E id \in Ids : mutex[id].w = c \/ c \in mutex[id].r

Goto(c, pc) == call' = [call EXCEPT ![c].pc = pc]

IdleCall == [pc |-> "idle", op |-> "none", id |-> 0, view |-> {}]

lockRest == <<cancelled, pcState, offer, old, connNotif, hPending, hCancelled,
              hUnreg, ff, proc, loopKills, activeStreams, decs>>

\* A caller enters registerSession with a session of a fresh id.
RegisterCall(c, id) ==
    /\ call[c].pc = "idle"
    /\ id \notin issued
    /\ issued' = issued \cup {id}
    /\ call' = [call EXCEPT ![c] = [pc |-> "regLock", op |-> "reg", id |-> id, view |-> {}]]
    /\ UNCHANGED <<lockOwner, lockReaders, mutex, regDone, unregDone, sessions,
                   FFmpegCmd, regKills>>

\* A caller, the connection-state handler or handleOffer for one, enters
\* unregisterSession, or startFFmpeg enters updateSessionFFmpeg (op), with
\* the id of a session registered before; a session is unregistered once.
LookupCall(c, id, op) ==
    /\ call[c].pc = "idle"
    /\ id \in regDone
    /\ op = "unregLock" =>
          /\ id \notin unregDone
          /\ \A d \in Callers : call[d].id = id => call[d].op # "unreg"
    /\ call' = [call EXCEPT ![c] =
                   [pc |-> op, op |-> IF op = "unregLock" THEN "unreg" ELSE "upd",
                    id |-> id, view |-> {}]]
    /\ UNCHANGED <<lockOwner, lockReaders, mutex, issued, regDone, unregDone,
                   sessions, FFmpegCmd, regKills>>

\* sessionsLock.Lock()
Lock(c) ==
    /\ call[c].pc \in {"regLock", "unregLock", "updLock"}
    /\ LockFree
    /\ lockOwner' = c
    /\ Goto(c, CASE call[c].pc = "regLock" -> "regRead"
                 [] call[c].pc = "unregLock" -> "unregLookup"
                 [] call[c].pc = "updLock" -> "updLookup")
    /\ UNCHANGED <<lockReaders, mutex, issued, regDone, unregDone, sessions,
                   FFmpegCmd, regKills>>

\* sessions[session.ID] = session, delete(sessions, sessionID): the read.
MapRead(c) ==
    /\ call[c].pc \in {"regRead", "unregRead"}
    /\ call' = [call EXCEPT ![c].view = sessions,
                            ![c].pc = IF call[c].pc = "regRead"
                                      THEN "regWrite" ELSE "unregWrite"]
    /\ UNCHANGED <<lockOwner, lockReaders, mutex, issued, regDone, unregDone,
                   sessions, FFmpegCmd, regKills>>

\* ... and the write.
MapWrite(c) ==
    /\ call[c].pc \in {"regWrite", "unregWrite"}
    /\ sessions' = IF call[c].pc = "regWrite"
                   THEN call[c].view \cup {call[c].id}
                   ELSE call[c].view \ {call[c].id}
    /\ Goto(c, IF call[c].pc = "regWrite" THEN "regUnlock" ELSE "unregUnlock")
    /\ UNCHANGED <<lockOwner, lockReaders, mutex, issued, regDone, unregDone,
                   FFmpegCmd, regKills>>

\* if session, exists := sessions[sessionID]; exists
Lookup(c) ==
    /\ call[c].pc \in {"unregLookup", "updLookup"}
    /\ Goto(c, IF call[c].pc = "unregLookup"
               THEN (IF call[c].id \in sessions THEN "unregMutex" ELSE "unregUnlock")
               ELSE (IF call[c].id \in sessions THEN "updMutex" ELSE "updUnlock"))
    /\ UNCHANGED <<lockOwner, lockReaders, mutex, issued, regDone, unregDone,
                   sessions, FFmpegCmd, regKills>>

\* session.mutex.Lock()
MutexLock(c) ==
    /\ call[c].pc \in {"unregMutex", "updMutex"}
    /\ MutexFree(call[c].id)
    /\ mutex' = [mutex EXCEPT ![call[c].id].w = c]
    /\ Goto(c, IF call[c].pc = "unregMutex" THEN "unregKill" ELSE "updSet")
    /\ UNCHANGED <<lockOwner, lockReaders, issued, regDone, unregDone, sessions,
                   FFmpegCmd, regKills>>

\* unregisterSession under session.mutex: the kill of an attached process,
\* and session.mutex.Unlock().
LockedKill(c) ==
    /\ call[c].pc = "unregKill"
    /\ regKills' = [regKills EXCEPT ![call[c].id] =
                       @ + IF FFmpegCmd[call[c].id] THEN 1 ELSE 0]
    /\ mutex' = [mutex EXCEPT ![call[c].id].w = 0]
    /\ Goto(c, "unregRead")
    /\ UNCHANGED <<lockOwner, lockReaders, issued, regDone, unregDone, sessions,
                   FFmpegCmd>>

\* updateSessionFFmpeg that returns with session.mutex held.
LockedSetMutant(c) ==
    /\ call[c].pc = "updSet"
    /\ FFmpegCmd' = [FFmpegCmd EXCEPT ![call[c].id] = TRUE]
    /\ Goto(c, "updUnlock")
    /\ UNCHANGED <<lockOwner, lockReaders, mutex, issued, regDone, unregDone,
                   sessions, regKills>>

\* updateSessionFFmpeg under session.mutex: the attachment, and
\* session.mutex.Unlock().
LockedSet(c) ==
    /\ call[c].pc = "updSet"
    /\ FFmpegCmd' = [FFmpegCmd EXCEPT ![call[c].id] = TRUE]
    /\ mutex' = [mutex EXCEPT ![call[c].id].w = 0]
    /\ Goto(c, "updUnlock")
    /\ UNCHANGED <<lockOwner, lockReaders, issued, regDone, unregDone, sessions,
                   regKills>>

\* The deferred sessionsLock.Unlock() or RUnlock(): the call returns.
Unlock(c) ==
    /\ call[c].pc \in {"regUnlock", "unregUnlock", "updUnlock", "itUnlock"}
    /\ lockOwner' = IF lockOwner = c THEN 0 ELSE lockOwner
    /\ lockReaders' = lockReaders \ {c}
    /\ regDone' = IF call[c].pc = "regUnlock" THEN regDone \cup {call[c].id} ELSE regDone
    /\ unregDone' = IF call[c].pc = "unregUnlock"
                    THEN unregDone \cup {call[c].id} ELSE unregDone
    /\ call' = [call EXCEPT ![c] = IdleCall]
    /\ UNCHANGED <<mutex, issued, sessions, FFmpegCmd, regKills>>

LockNext ==
    \/ \E c \in Callers, id \in Ids :
          RegisterCall(c, id) /\ UNCHANGED <<scanVars, lockRest, statsVars, paceVars>>
    \/ \E c \in Callers, id \in Ids, op \in {"unregLock", "updLock"} :
          LookupCall(c, id, op) /\ UNCHANGED <<scanVars, lockRest, statsVars, paceVars>>
    \/ \E c \in Callers : Lock(c) /\ UNCHANGED <<scanVars, lockRest, statsVars, paceVars>>
    \/ \E c \in Callers : MapRead(c) /\ UNCHANGED <<scanVars, lockRest, statsVars, paceVars>>
    \/ \E c \in Callers : MapWrite(c) /\ UNCHANGED <<scanVars, lockRest, statsVars, paceVars>>
    \/ \E c \in Callers : Lookup(c) /\ UNCHANGED <<scanVars, lockRest, statsVars, paceVars>>
    \/ \E c \in Callers : MutexLock(c) /\ UNCHANGED <<scanVars, lockRest, statsVars, paceVars>>
    \/ \E c \in Callers : LockedKill(c) /\ UNCHANGED <<scanVars, lockRest, statsVars, paceVars>>
    \/ \E c \in Callers : LockedSet(c) /\ UNCHANGED <<scanVars, lockRest, statsVars, paceVars>>
    \/ \E c \in Callers : Unlock(c) /\ UNCHANGED <<scanVars, lockRest, statsVars, paceVars>>

LockInit == ScanIdle /\ LifeInitOver(Ids) /\ LockIdle /\ StatsIdle /\ PaceIdle

SpecLock == LockInit /\ [][LockNext]_vars

(***************************************************************************)
(* The operations that walk the registry: cleanupStaleSessions (sweep),    *)
(* cleanupAllSessions (all) under sessionsLock.Lock(), handleSessions      *)
(* (list) under sessionsLock.RLock(); each takes session.mutex.RLock() of  *)
(* the sessions it visits.                                                 *)
(***************************************************************************)
HoldsRegistry(c) == lockOwner = c \/ c \in lockReaders

IterCall(c, op) ==
    /\ call[c].pc = "idle"
    /\ call' = [call EXCEPT ![c] = [pc |-> "itLock", op |-> op, id |-> 0, view |-> {}]]
    /\ UNCHANGED <<lockOwner, lockReaders, mutex, issued, regDone, unregDone,
                   sessions, FFmpegCmd, regKills>>

\* sessionsLock.Lock() or sessionsLock.RLock(), and the start of the range
\* over the map.
IterLock(c) ==
    /\ call[c].pc = "itLock"
    /\ IF call[c].op = "list"
       THEN /\ RLockFree
            /\ lockReaders' = lockReaders \cup {c}
            /\ UNCHANGED lockOwner
       ELSE /\ LockFree
            /\ lockOwner' = c
            /\ UNCHANGED lockReaders
    /\ call' = [call EXCEPT ![c].pc = "itNext", ![c].view = sessions]
    /\ UNCHANGED <<mutex, issued, regDone, unregDone, sessions, FFmpegCmd, regKills>>

\* The range reaches session id; the sweep passes over a session that is
\* not stale.
IterVisit(c, id, stale) ==
    /\ call[c].pc = "itNext"
    /\ id \in call[c].view \cap sessions
    /\ call' = [call EXCEPT ![c].view = @ \ {id},
                            ![c].id = id,
                            ![c].pc = IF call[c].op = "sweep" /\ ~stale
                                      THEN "itNext" ELSE "itMutex"]
    /\ UNCHANGED <<lockOwner, lockReaders, mutex, issued, regDone, unregDone,
                   sessions, FFmpegCmd, regKills>>

\* The range is over.
IterEnd(c) ==
    /\ call[c].pc = "itNext"
    /\ call[c].view \cap sessions = {}
    /\ Goto(c, "itUnlock")
    /\ UNCHANGED <<lockOwner, lockReaders, mutex, issued, regDone, unregDone,
                   sessions, FFmpegCmd, regKills>>

\* session.mutex.RLock()
MutexRLock(c) ==
    /\ call[c].pc = "itMutex"
    /\ MutexRFree(call[c].id)
    /\ mutex' = [mutex EXCEPT ![call[c].id].r = @ \cup {c}]
    /\ Goto(c, "itBody")
    /\ UNCHANGED <<lockOwner, lockReaders, issued, regDone, unregDone, sessions,
                   FFmpegCmd, regKills>>

\* Under session.mutex.RLock(): the kill of the attached process or the
\* read of has_ffmpeg; session.mutex.RUnlock(); sweep and all delete the
\* session. (cleanupAllSessions closes the transport first; the handler of
\* its Closed notification is a goroutine of its own, a caller like any.)
IterBody(c) ==
    /\ call[c].pc = "itBody"
    /\ mutex' = [mutex EXCEPT ![call[c].id].r = @ \ {c}]
    /\ IF call[c].op = "list"
       THEN UNCHANGED <<regKills, sessions>>
       ELSE /\ regKills' = [regKills EXCEPT ![call[c].id] =
                               @ + IF FFmpegCmd[call[c].id] THEN 1 ELSE 0]
            /\ sessions' = sessions \ {call[c].id}
    /\ Goto(c, "itNext")
    /\ UNCHANGED <<lockOwner, lockReaders, issued, regDone, unregDone, FFmpegCmd>>

OrderNext ==
    \/ LockNext
    \/ \E c \in Callers, op \in {"sweep", "all", "list"} :
          IterCall(c, op) /\ UNCHANGED <<scanVars, lockRest, statsVars, paceVars>>
    \/ \E c \in Callers : IterLock(c) /\ UNCHANGED <<scanVars, lockRest, statsVars, paceVars>>
    \/ \E c \in Callers, id \in Ids, stale \in BOOLEAN :
          IterVisit(c, id, stale) /\ UNCHANGED <<scanVars, lockRest, statsVars, paceVars>>
    \/ \E c \in Callers : IterEnd(c) /\ UNCHANGED <<scanVars, lockRest, statsVars, paceVars>>
    \/ \E c \in Callers : MutexRLock(c) /\ UNCHANGED <<scanVars, lockRest, statsVars, paceVars>>
    \/ \E c \in Callers : IterBody(c) /\ UNCHANGED <<scanVars, lockRest, statsVars, paceVars>>

SpecOrder == LockInit /\ [][OrderNext]_vars

Init == ScanIdle /\ LifeInit /\ LockIdle /\ StatsIdle /\ PaceIdle

Spec == Init /\ [][Next]_vars

ScanInit == ScanStart /\ LifeInit /\ LockIdle /\ StatsIdle /\ PaceIdle

SpecScan == ScanInit /\ [][ScanNext]_vars

\* Scanner.Scan runs in the delivery loop's goroutine, which the scheduler
\* keeps running: a call that can take its next step takes it.
FairSpecScan == SpecScan /\ WF_vars(ScanNext)


(***************************************************************************)
(* The metrics: the delivery loops count frames, handleStats and           *)
(* logMetrics load the counters one after the other and derive the drop    *)
(* rate. A rate is the exact quotient num/den; float64 rounding is not     *)
(* modelled.                                                               *)
(***************************************************************************)

\* dropRate without the test of processed.
DropRateMutant(processed, dropped) == [num |-> dropped * 100, den |-> processed]

\* var dropRate float64; if processed > 0 { dropRate = dropped/processed*100 }
DropRate(processed, dropped) ==
    IF processed > 0
    THEN [num |-> dropped * 100, den |-> processed]
    ELSE [num |-> 0, den |-> 1]

scanRest == <<stream, rdStart, rdEnd, scanEOF, scanSt, tokens, samples>>

\* A loop that does not count the frame whose write failed as processed.
CountProcessedMutant(err) ==
    /\ errPending < NumIds
    /\ framesProcessed < MaxFrames
    /\ framesProcessed' = IF err THEN framesProcessed ELSE framesProcessed + 1
    /\ errPending' = IF err THEN errPending + 1 ELSE errPending
    /\ UNCHANGED <<framesDropped, stats>>

\* atomic.AddInt64(&framesProcessed, 1) in one of the NumIds delivery loops
\* that is not between its two counts, after a write that failed (err) or
\* not.
CountProcessed(err) ==
    /\ errPending < NumIds
    /\ framesProcessed < MaxFrames
    /\ framesProcessed' = framesProcessed + 1
    /\ errPending' = IF err THEN errPending + 1 ELSE errPending
    /\ UNCHANGED <<framesDropped, stats>>

\* if err != nil { atomic.AddInt64(&framesDropped, 1) }, in one of the loops
\* whose write failed.
CountDropped ==
    /\ errPending > 0
    /\ framesDropped' = framesDropped + 1
    /\ errPending' = errPending - 1
    /\ UNCHANGED <<framesProcessed, stats>>

\* processed := atomic.LoadInt64(&framesProcessed)
StatsLoadProcessed ==
    /\ stats.pc = "idle"
    /\ stats' = [stats EXCEPT !.pc = "processed", !.processed = framesProcessed]
    /\ UNCHANGED <<framesProcessed, framesDropped, errPending>>

\* dropped := atomic.LoadInt64(&framesDropped)
StatsLoadDropped ==
    /\ stats.pc = "processed"
    /\ stats' = [stats EXCEPT !.pc = "dropped", !.dropped = framesDropped]
    /\ UNCHANGED <<framesProcessed, framesDropped, errPending>>

\* The rate is computed and written to the response or the log.
StatsReport ==
    /\ stats.pc = "dropped"
    /\ stats' = [stats EXCEPT !.pc = "reported",
                              !.rate = DropRate(stats.processed, stats.dropped)]
    /\ UNCHANGED <<framesProcessed, framesDropped, errPending>>

\* The handler returns, the ticker loop waits for its next tick.
StatsReturn ==
    /\ stats.pc = "reported"
    /\ stats' = [pc |-> "idle", processed |-> 0, dropped |-> 0,
                 rate |-> [num |-> 0, den |-> 1]]
    /\ UNCHANGED <<framesProcessed, framesDropped, errPending>>

StatsNext ==
    \/ \E err \in BOOLEAN : CountProcessed(err) /\ UNCHANGED <<scanRest, lifeVars, lockVars, paceVars>>
    \/ CountDropped /\ UNCHANGED <<scanRest, lifeVars, lockVars, paceVars>>
    \/ StatsLoadProcessed /\ UNCHANGED <<scanRest, lifeVars, lockVars, paceVars>>
    \/ StatsLoadDropped /\ UNCHANGED <<scanRest, lifeVars, lockVars, paceVars>>
    \/ StatsReport /\ UNCHANGED <<scanRest, lifeVars, lockVars, paceVars>>
    \/ StatsReturn /\ UNCHANGED <<scanRest, lifeVars, lockVars, paceVars>>

SpecStats == Init /\ [][StatsNext]_vars

(***************************************************************************)
(* Frame-rate control. The loop reads the clock for every unit longer than *)
(* four bytes and forwards the unit when the reading is at least           *)
(* frameDuration after the reading of the unit forwarded last. Time passes *)
(* between the steps of the loop: between Scan() returning, time.Now(),    *)
(* and the call of track.WriteSample that follows the copy of the unit.    *)
(***************************************************************************)

\* frameDuration := time.Second / time.Duration(fps), an integer division.
FrameDuration(fps) == TicksPerSecond \div fps

\* The test without the frame duration: every unit is forwarded.
DueMutant(now, lastFrameTime, fps) == now - lastFrameTime >= 0
\* now.Sub(lastFrameTime) >= frameDuration
Due(now, lastFrameTime, fps) == now - lastFrameTime >= FrameDuration(fps)

paceRest == <<stream, rdStart, rdEnd, scanEOF, scanSt, tokens, samples>>

\* Time passes while a loop runs.
Tick ==
    /\ pace.pc \notin {"idle", "done"}
    /\ clock < MaxClock
    /\ clock' = clock + 1
    /\ UNCHANGED <<pace, writes, skipped, framesProcessed, framesDropped>>

\* The loop is entered: frameDuration is derived from the session's fps and
\* lastFrameTime := time.Now().
PaceBegin(fps) ==
    /\ pace.pc = "idle"
    /\ pace' = [pc |-> "scan", fps |-> fps, lastFrameTime |-> clock,
                now |-> clock, unit |-> 0]
    /\ UNCHANGED <<clock, writes, skipped, framesProcessed, framesDropped>>

\* scanner.Scan() returns the next unit, longer than four bytes or not; a
\* short unit is consumed and the loop goes round.
PaceScan(long) ==
    /\ pace.pc = "scan"
    /\ pace.unit < MaxUnits
    /\ pace' = [pace EXCEPT !.unit = @ + 1,
                            !.pc = IF long THEN "now" ELSE "scan"]
    /\ skipped' = IF long THEN skipped ELSE skipped \cup {pace.unit + 1}
    /\ UNCHANGED <<clock, writes, framesProcessed, framesDropped>>

\* now := time.Now() and the frame-rate test: a unit that is not due is
\* consumed and the loop goes round.
PaceNow ==
    /\ pace.pc = "now"
    /\ IF Due(clock, pace.lastFrameTime, pace.fps)
       THEN /\ pace' = [pace EXCEPT !.now = clock, !.pc = "write"]
            /\ UNCHANGED skipped
       ELSE /\ pace' = [pace EXCEPT !.now = clock, !.pc = "scan"]
            /\ skipped' = skipped \cup {pace.unit}
    /\ UNCHANGED <<clock, writes, framesProcessed, framesDropped>>

\* A loop that returns when a write fails.
PaceWriteMutant(writeErr) ==
    /\ pace.pc = "write"
    /\ writes' = Append(writes, [at |-> clock, now |-> pace.now, unit |-> pace.unit,
                                 err |-> writeErr])
    /\ framesProcessed' = framesProcessed + 1
    /\ framesDropped' = IF writeErr THEN framesDropped + 1 ELSE framesDropped
    /\ pace' = [pace EXCEPT !.lastFrameTime = pace.now,
                            !.pc = IF writeErr THEN "done" ELSE "scan"]
    /\ UNCHANGED <<clock, skipped>>

\* The unit is copied and track.WriteSample is called, the write fails
\* (writeErr) or not; the counters are updated and lastFrameTime = now.
PaceWrite(writeErr) ==
    /\ pace.pc = "write"
    /\ writes' = Append(writes, [at |-> clock, now |-> pace.now, unit |-> pace.unit,
                                 err |-> writeErr])
    /\ framesProcessed' = framesProcessed + 1
    /\ framesDropped' = IF writeErr THEN framesDropped + 1 ELSE framesDropped
    /\ pace' = [pace EXCEPT !.lastFrameTime = pace.now, !.pc = "scan"]
    /\ UNCHANGED <<clock, skipped>>

\* The loop returns: the context is done or Scan() returned false.
PaceReturn ==
    /\ pace.pc = "scan"
    /\ pace' = [pace EXCEPT !.pc = "done"]
    /\ UNCHANGED <<clock, writes, skipped, framesProcessed, framesDropped>>

PaceNext ==
    \/ Tick /\ UNCHANGED <<paceRest, lifeVars, lockVars, statsVars>>
    \/ \E fps \in PaceRates :
          PaceBegin(fps) /\ UNCHANGED <<paceRest, lifeVars, lockVars, statsVars>>
    \/ \E long \in BOOLEAN :
          PaceScan(long) /\ UNCHANGED <<paceRest, lifeVars, lockVars, statsVars>>
    \/ PaceNow /\ UNCHANGED <<paceRest, lifeVars, lockVars, statsVars>>
    \/ \E writeErr \in BOOLEAN :
          PaceWrite(writeErr) /\ UNCHANGED <<paceRest, lifeVars, lockVars, statsVars>>
    \/ PaceReturn /\ UNCHANGED <<paceRest, lifeVars, lockVars, statsVars>>

SpecPace == Init /\ [][PaceNext]_vars

(***************************************************************************)
(* Several sessions side by side: each is negotiated, streams and is torn  *)
(* down by its handler; the steps of the sessions interleave.              *)
(***************************************************************************)
ScopeInit == ScanIdle /\ LifeInitOver(Ids) /\ LockIdle /\ StatsIdle /\ PaceIdle

ScopeNext ==
    \/ \E s \in Ids : OfferAccept(s, MaxWidth, MaxHeight, MaxFPS) /\ UNCHANGED <<scanVars, lockVars, statsVars, paceVars>>
    \/ \E s \in Ids : OfferAnswer(s) /\ UNCHANGED <<scanVars, lockVars, statsVars, paceVars>>
    \/ \E s \in Ids, to \in {"connecting", "connected", "disconnected", "failed"} :
          TransportChange(s, to) /\ UNCHANGED <<scanVars, lockVars, statsVars, paceVars>>
    \/ \E s \in Ids : Handler(s) /\ UNCHANGED <<scanVars, lockVars, statsVars, paceVars>>
    \/ \E s \in Ids : StartFFmpeg(s) /\ UNCHANGED <<scanVars, lockVars, statsVars, paceVars>>
    \/ \E s \in Ids, ok \in BOOLEAN, seen \in BOOLEAN :
          FFmpegStart(s, ok, seen) /\ UNCHANGED <<scanVars, lockVars, statsVars, paceVars>>
    \/ \E s \in Ids : FFmpegScanUnit(s) /\ UNCHANGED <<scanVars, lockVars, statsVars, paceVars>>
    \/ \E s \in Ids : ProcessExit(s) /\ UNCHANGED <<scanVars, lockVars, statsVars, paceVars>>

SpecScope == ScopeInit /\ [][ScopeNext]_vars

(***************************************************************************)
(* Fairness: the Go scheduler runs every runnable goroutine. Each handler  *)
(* invocation and each startFFmpeg call is a goroutine; its next step is   *)
(* taken once it stays enabled. Nothing obliges the client, the transport, *)
(* the encoder's output or the 10-minute age to make progress.             *)
(***************************************************************************)
Fairness ==
    \A s \in Sessions :
        /\ WF_vars(HandleConnected(s) /\ UNCHANGED <<scanVars, lockVars, statsVars, paceVars>>)
        /\ WF_vars(HandleTerminalCancel(s) /\ UNCHANGED <<scanVars, lockVars, statsVars, paceVars>>)
        /\ WF_vars(HandleTerminalUnregister(s) /\ UNCHANGED <<scanVars, lockVars, statsVars, paceVars>>)
        /\ WF_vars(HandleTerminalClose(s) /\ UNCHANGED <<scanVars, lockVars, statsVars, paceVars>>)
        /\ WF_vars(StartFFmpeg(s) /\ UNCHANGED <<scanVars, lockVars, statsVars, paceVars>>)
        /\ WF_vars((\E ok \in BOOLEAN, seen \in BOOLEAN : FFmpegStart(s, ok, seen))
                      /\ UNCHANGED <<scanVars, lockVars, statsVars, paceVars>>)

FairSpec == Spec /\ Fairness

\* The lifecycle with the shutdown signal, whose goroutine cleans up every
\* session while the others still run.
DownNext ==
    \/ Next
    \/ cleanupAllSessions /\ UNCHANGED <<scanVars, lockVars, statsVars, paceVars>>

SpecDown == Init /\ [][DownNext]_vars

(***************************************************************************)
(* Properties of the session lifecycle.                                    *)
(***************************************************************************)

\* C1: every subprocess startFFmpeg spawned is eventually sent a kill
\* signal once the session's cancellation has fired or the session has left
\* the registry, also when the handle was never attached to the record.
C1_NoOrphanedSubprocess ==
    \A s \in Sessions :
        (proc[s] # "none" /\ (cancelled[s] \/ s \notin sessions))
            ~> (KillsSent(s) >= 1)

\* The teardown ran between cmd.Start and updateSessionFFmpeg: the handle
\* was never attached, and the delivery loop killed the subprocess.
C1_KilledUnattached ==
    \E s \in Sessions :
        /\ proc[s] # "none"
        /\ ~FFmpegCmd[s]
        /\ s \notin sessions
        /\ regKills[s] = 0
        /\ loopKills[s] = 1

\* The unregisterSession calls made for a session so far: one by each
\* terminal handler past it, one by a failed handleOffer.
UnregisterCalls(s) ==
    (decs[s] - hCancelled[s]) + (IF offer[s] = "failed" THEN 1 ELSE 0)

\* C2: unregisterSession twice on one id leaves the registry one call
\* leaves, without the id, and the two calls issue at most one kill; in
\* every run the calls made for a session issue at most one kill.
C2_UnregisterIdempotent ==
    /\ \A reg \in SUBSET Sessions, cmd \in [Sessions -> BOOLEAN], id \in Sessions :
          LET r1 == UnregisterResult(reg, cmd, id)
              r2 == UnregisterResult(r1.sessions, cmd, id)
          IN  /\ id \notin r1.sessions
              /\ r2.sessions = r1.sessions
              /\ r1.kill + r2.kill <= 1
    /\ \A s \in Sessions :
          /\ UnregisterCalls(s) >= 1 => s \notin sessions
          /\ regKills[s] <= 1

\* unregisterSession was called twice for a session with an attached
\* subprocess and killed it once.
C2_CalledTwice ==
    \E s \in Sessions :
        /\ UnregisterCalls(s) >= 2
        /\ FFmpegCmd[s]
        /\ ~old[s]
        /\ regKills[s] = 1

\* C3: whatever notifications the handler of a session receives, the gauge
\* is decremented at most once for the session.
C3_DecrementedOnce == \A s \in Sessions : decs[s] <= 1

\* The sweep removes session s from the registry in this step.
SweepEvicts(s) ==
    /\ \E aged \in SUBSET sessions : cleanupStaleSessions(aged)
    /\ s \in sessions
    /\ s \notin sessions'

\* C4: when the sweep tears down a session the handler has begun to tear
\* down, the gauge has been decremented once for it and its subprocess has
\* been sent one kill signal at most.
C4_TeardownOnce ==
    [][\A s \in Sessions :
          (SweepEvicts(s) /\ decs[s] >= 1) =>
              (decs'[s] <= 1 /\ regKills'[s] + loopKills'[s] <= 1)]_vars

\* C5 as stated: a sweep that finds a registered session in a terminal
\* state leaves it out of the registry, its running subprocess killed.
C5_TerminalEvictedBySweep ==
    [][\A s \in Sessions :
          ((\E aged \in SUBSET sessions : cleanupStaleSessions(aged))
              /\ s \in sessions /\ Terminal(pcState[s])) =>
              (/\ s \notin sessions'
               /\ proc[s] = "running" => regKills'[s] + loopKills'[s] >= 1)]_vars

\* C5: a sweep that finds a registered session in a terminal state and
\* older than 10 minutes removes it from the registry, fires its
\* cancellation and kills the subprocess attached to its record, whether or
\* not the connection-state handler has run.
C5_StaleEvictedBySweep ==
    [][\A s \in Sessions : \A aged \in SUBSET sessions :
          (cleanupStaleSessions(aged) /\ s \in aged /\ Terminal(pcState[s])) =>
              (/\ s \notin sessions'
               /\ cancelled'[s]
               /\ FFmpegCmd[s] => regKills'[s] = regKills[s] + 1)]_vars

\* The sweep evicted a session whose handler never began: nothing else
\* removes an answered session, cancelled it and killed its subprocess.
C5_EvictedWithoutHandler ==
    \E s \in Sessions :
        /\ offer[s] = "answered"
        /\ decs[s] = 0
        /\ old[s]
        /\ s \notin sessions
        /\ cancelled[s]
        /\ regKills[s] = 1

\* C6: once the session's cancellation has fired, no step starts an
\* encoder subprocess for it.
C6_NoStartAfterCancel ==
    [][\A s \in Sessions :
          (cancelled[s] /\ proc[s] = "none") => proc'[s] = "none"]_vars

(***************************************************************************)
(* Properties of the registry under concurrent callers.                    *)
(***************************************************************************)

\* C7: under every interleaving of the callers, one caller at a time is
\* inside a registry operation, an id no operation is working on is in the
\* registry exactly when it was registered and not unregistered, and with
\* all calls returned the registry's size is registrations minus
\* unregistrations.
C7_RegistryExact ==
    /\ \A c1 \in Callers, c2 \in Callers : InLock(c1) /\ InLock(c2) => c1 = c2
    /\ \A id \in Ids :
          (\A c \in Callers : InLock(c) => call[c].id # id) =>
              (id \in sessions <=> id \in regDone \ unregDone)
    /\ (\A c \in Callers : call[c].pc = "idle") =>
          Cardinality(sessions) = Cardinality(regDone) - Cardinality(unregDone)
    /\ \A id \in Ids : regKills[id] <= 1

\* One caller is in the middle of an insertion while another waits to
\* remove a session registered before.
C7_Contended ==
    \E c1 \in Callers, c2 \in Callers :
        /\ call[c1].pc = "regWrite"
        /\ call[c2].pc = "unregLock"
        /\ sessions # {}

(***************************************************************************)
(* Properties of the reframer.                                             *)
(***************************************************************************)

\* The number of well-formed access units data is the concatenation of,
\* -1 when it is not one: a unit is a 3- or 4-byte start code and a
\* non-empty payload that holds no start code and does not end in 0x00.
RECURSIVE UnitCount(_)
UnitCount(data) ==
    IF data = <<>> THEN 0
    ELSE LET c == IF HasPrefix(data, StartCode4) THEN 4
                  ELSE IF HasPrefix(data, StartCode3) THEN 3 ELSE 0
             rest == Slice(data, c, Len(data))
             Q == {q \in 0..(Len(rest) - 3) : IsCode3At(rest, q)}
             q3 == IF Q = {} THEN Len(rest) ELSE Min(Q)
             q == IF Q # {} /\ q3 > 0 /\ At(rest, q3 - 1) = 0 THEN q3 - 1 ELSE q3
             payload == Slice(rest, 0, q)
             n == UnitCount(Slice(rest, q, Len(rest)))
         IN  IF c = 0 \/ payload = <<>> \/ payload[Len(payload)] = 0 \/ n < 0
             THEN -1 ELSE n + 1

\* A non-empty proper prefix of a start code.
IsCodeFragment(tok) == tok \in {<<0>>, <<0, 0>>, <<0, 0, 0>>}

\* C8: a stream of N well-formed access units read to its end, however it
\* was split into reads, has yielded N units, none of them empty or a
\* fragment of a start code.
C8_OneUnitPerAccessUnit ==
    (scanSt = "done" /\ UnitCount(stream) >= 0) =>
        /\ Len(tokens) = UnitCount(stream)
        /\ \A k \in 1..Len(tokens) :
              tokens[k] # <<>> /\ ~IsCodeFragment(tokens[k])

HasStartCode(nalu) == HasPrefix(nalu, StartCode4) \/ HasPrefix(nalu, StartCode3)

C10_FullBufferEmitted ==
    [][(scanSt = "fill" /\ rdEnd - rdStart >= MaxTokenSize) =>
          (/\ tokens' = Append(tokens, Buffered)
           /\ scanSt' # "toolong")]_vars


(***************************************************************************)
(* Properties of handleOffer.                                              *)
(***************************************************************************)

\* width in (0, 3840], height in (0, 2160], fps in (0, 144]
InRange(width, height, fps) ==
    /\ width \in 1..3840
    /\ height \in 1..2160
    /\ fps \in 1..144

\* handleOffer takes its first step for session s on this request.
OfferEntry(s, width, height, fps) ==
    \/ OfferReject(s, width, height, fps)
    \/ OfferPeerFail(s, width, height, fps)
    \/ OfferAccept(s, width, height, fps)

\* C11: a request with width, height or fps out of range is answered with
\* a client error, and that step creates no peer session, registers no
\* session, spawns no subprocess and leaves registry and metrics unchanged.
C11_InvalidRequestRejected ==
    [][\A s \in Sessions, width \in Widths, height \in Heights, fps \in Rates :
          (~InRange(width, height, fps) /\ OfferEntry(s, width, height, fps)) =>
              (/\ offer'[s] = "rejected"
               /\ UNCHANGED <<sessions, pcState, proc, ff, FFmpegCmd, cancelled,
                              activeStreams, framesProcessed, framesDropped>>)]_vars

\* A request was rejected: no peer session, no registration, no subprocess.
C11_Rejected ==
    \E s \in Sessions :
        /\ offer[s] = "rejected"
        /\ pcState[s] = "none"
        /\ s \notin sessions
        /\ proc[s] = "none"
        /\ activeStreams = 0

\* C12 as stated: once handleOffer has answered with the error of a failed
\* setup step, peer-session creation included, the session is not in the
\* registry, its cancellation has fired, its transport is closed and no
\* encoder is or will be started for it.
C12_SetupFailureUnwound ==
    \A s \in Sessions :
        offer[s] \in {"nopeer", "failed"} =>
            /\ s \notin sessions
            /\ cancelled[s]
            /\ pcState[s] = "closed"
            /\ ff[s] = "none" /\ proc[s] = "none"

\* C12: once handleOffer has answered with the error of a setup step that
\* failed after the peer session was created, the session is not in the
\* registry, its cancellation has fired, its transport is closed and no
\* encoder is or will be started for it; when the creation of the peer
\* session itself failed, no session, cancellation or transport exists.
C12_FailureAfterPeerUnwound ==
    \A s \in Sessions :
        /\ offer[s] = "failed" =>
              /\ s \notin sessions
              /\ cancelled[s]
              /\ pcState[s] = "closed"
              /\ ff[s] = "none" /\ proc[s] = "none"
        /\ offer[s] = "nopeer" =>
              /\ s \notin sessions
              /\ ~cancelled[s]
              /\ pcState[s] = "none"
              /\ ff[s] = "none" /\ proc[s] = "none"

\* A setup step failed after registration and its Closed notification has
\* been handled to the end.
C12_FailedAndHandled ==
    \E s \in Sessions :
        /\ offer[s] = "failed"
        /\ cancelled[s]
        /\ pcState[s] = "closed"
        /\ decs[s] = 1 /\ hCancelled[s] = 0

(***************************************************************************)
(* Properties of the metrics.                                              *)
(***************************************************************************)

\* C13: the drop rate a reader reports for the counter values P and D it
\* loaded is the quotient 100*D/P, and it is 0 when P = 0, with no division
\* by zero.
C13_DropRate ==
    stats.pc = "reported" =>
        /\ stats.rate.den > 0
        /\ stats.processed = 0 => stats.rate.num = 0
        /\ stats.processed > 0 =>
              stats.rate.num * stats.processed = 100 * stats.dropped * stats.rate.den

\* A rate was reported with one of three processed frames dropped.
C13_Reported ==
    /\ stats.pc = "reported"
    /\ stats.processed = framesProcessed
    /\ stats.dropped = framesDropped
    /\ framesProcessed = 3
    /\ framesDropped = 1

(***************************************************************************)
(* Properties of the lock order.                                           *)
(***************************************************************************)

\* The next step of caller c's operation.
CallerStep(c) ==
    /\ \/ Lock(c) \/ MapRead(c) \/ MapWrite(c) \/ Lookup(c) \/ MutexLock(c)
       \/ LockedKill(c) \/ LockedSet(c) \/ Unlock(c)
       \/ IterLock(c) \/ IterEnd(c) \/ MutexRLock(c) \/ IterBody(c)
       \/ \E id \in Ids, stale \in BOOLEAN : IterVisit(c, id, stale)
    /\ UNCHANGED <<scanVars, lockRest, statsVars, paceVars>>

\* C14: a caller holds a session's lock only while it holds the registry
\* lock, so no caller asks for the registry lock with a session's lock in
\* hand; and while any operation is unfinished, some operation can take
\* its next step: no deadlock.
C14_LockOrder ==
    /\ \A c \in Callers : HoldsMutex(c) => HoldsRegistry(c)
    /\ \A c \in Callers :
          call[c].pc \in {"regLock", "unregLock", "updLock", "itLock"} =>
              ~HoldsMutex(c)
    /\ (\E c \in Callers : call[c].pc # "idle") =>
          \E c \in Callers : call[c].pc # "idle" /\ ENABLED CallerStep(c)

\* The sweep holds both locks of a session while the connection-state
\* handler's unregisterSession for that session waits for the registry
\* lock.
C14_BothLocksHeld ==
    \E c1 \in Callers, c2 \in Callers :
        /\ call[c1].pc = "itBody"
        /\ call[c1].op = "sweep"
        /\ HoldsRegistry(c1) /\ HoldsMutex(c1)
        /\ call[c2].pc = "unregLock"
        /\ call[c2].id = call[c1].id

(***************************************************************************)
(* Properties of the connection-state handler.                             *)
(***************************************************************************)

\* C15: a Disconnected, Failed or Closed notification delivered for a
\* session leads to the session's cancellation fired, the subprocess
\* attached to its record killed, the session out of the registry and the
\* transport closed.
C15_TerminalHandled ==
    \A s \in Sessions :
        (hPending[s] > 0 \/ decs[s] >= 1) ~>
            (/\ cancelled[s]
             /\ s \notin sessions
             /\ pcState[s] = "closed"
             /\ FFmpegCmd[s] => regKills[s] >= 1)

\* The handlers of a connected session with an attached encoder have all
\* returned.
C15_HandlersReturned ==
    \E s \in Sessions :
        /\ offer[s] = "answered"
        /\ decs[s] >= 1
        /\ hPending[s] = 0 /\ hCancelled[s] = 0 /\ hUnreg[s] = 0
        /\ FFmpegCmd[s]
        /\ ~old[s]
        /\ regKills[s] = 1
        /\ pcState[s] = "closed"

(***************************************************************************)
(* Properties of the sweep.                                                *)
(***************************************************************************)

\* C16: a sweep evicts every registered session it finds terminal and
\* older than the grace threshold, and every session older than the
\* absolute maximum whatever its connection state. The sweep has one
\* threshold; a session it finds older than that can be of any age above,
\* the absolute maximum included.
C16_AgedEvictedWhateverState ==
    [][\A s \in Sessions : \A aged \in SUBSET sessions :
          (cleanupStaleSessions(aged) /\ s \in aged) => s \notin sessions']_vars

\* C17 as stated: every failure of a setup step of handleOffer, the
\* creation of the peer session included, finds the session in the
\* registry.
C17_RegisteredBeforeSetup ==
    [][\A s \in Sessions :
          (offer[s] \in {"none", "setup"} /\ offer'[s] \in {"nopeer", "failed"}) =>
              s \in sessions]_vars

\* C17: handleOffer registers the session once the peer session is created
\* and before every other fallible setup step: while those steps run the
\* session is in the registry, the failure of one finds it there and
\* removes it, and a failed creation of the peer session leaves nothing
\* registered.
C17_RegisteredAfterPeerCreation ==
    [][\A s \in Sessions :
          /\ offer[s] = "setup" => (s \in sessions /\ pcState[s] = "new")
          /\ (offer[s] = "setup" /\ offer'[s] = "failed") => s \notin sessions'
          /\ (offer[s] = "none" /\ offer'[s] = "nopeer") =>
                (s \notin sessions /\ s \notin sessions' /\ pcState'[s] = "none")]_vars

\* The fallible setup steps that follow registration are running.
C17_InSetup ==
    \E s \in Sessions :
        /\ offer[s] = "setup"
        /\ s \in sessions
        /\ pcState[s] = "new"
        /\ ~cancelled[s]

\* The length of the start code the data begins with, 0 when it begins
\* with none.
LeadingCode(data) ==
    IF HasPrefix(data, StartCode4) THEN 4
    ELSE IF HasPrefix(data, StartCode3) THEN 3 ELSE 0

\* No start code begins after the leading start code of the data.
NoBoundary(data) ==
    \A k \in LeadingCode(data)..(Len(data) - 3) :
        Slice(data, k, k + 3) # StartCode3

\* C18: when the buffered data holds no unit boundary (no start code after
\* its leading start code, if any) and the stream has not ended, the split
\* function asks for more bytes: the scanner consumes nothing and returns
\* no token, whether the data begins with a 3-byte code, a 4-byte code or
\* none.
C18_NoBoundaryRequestsMore ==
    [][(scanSt = "split" /\ ~scanEOF /\ NoBoundary(Buffered)) =>
           (/\ scanNALUs(Buffered, scanEOF) = NoToken
            /\ tokens' = tokens
            /\ rdStart' = rdStart)]_vars

\* C19: a delivery flow that returned after its subprocess was started has
\* waited for it: the subprocess is reaped, not left running or exited and
\* unreaped.
C19_ReapedBeforeReturn ==
    \A s \in Sessions :
        (ff[s] = "done" /\ proc[s] # "none") => proc[s] = "reaped"

\* C20 as stated: any two consecutive WriteSample calls of the loop are at
\* least one frame interval apart, the interval taken as the loop's
\* frameDuration.
C20_WritesOneIntervalApart ==
    \A i \in 1..(Len(writes) - 1) :
        writes[i + 1].at - writes[i].at >= FrameDuration(pace.fps)

\* C20: the clock readings on which two consecutive WriteSample calls were
\* admitted are at least frameDuration (time.Second / fps, truncated)
\* apart, each call follows its reading, and a unit that was consumed
\* without being forwarded is never written later: the units written are
\* in scan order and none of them was skipped.
C20_ReadingsOneDurationApart ==
    /\ \A i \in 1..(Len(writes) - 1) :
          /\ writes[i + 1].now - writes[i].now >= FrameDuration(pace.fps)
          /\ writes[i].unit < writes[i + 1].unit
    /\ \A i \in 1..Len(writes) :
          /\ writes[i].at >= writes[i].now
          /\ writes[i].unit \notin skipped
          /\ writes[i].unit <= pace.unit

\* Two units were forwarded and one that arrived too soon after a
\* forwarded one was consumed in between.
C20_PacedAndSkipped ==
    /\ Len(writes) >= 2
    /\ \E u \in skipped : writes[1].unit < u /\ u < writes[2].unit

\* The WriteSample calls that failed.
FailedWrites == {i \in 1..Len(writes) : writes[i].err}

\* C21: a WriteSample call that fails adds exactly one to the dropped-frame
\* counter and the delivery loop goes on to scan the next unit: it does not
\* return, and no kill is sent to the subprocess.
C21_WriteFailureCounted ==
    /\ [](framesDropped = Cardinality(FailedWrites))
    /\ [][(Len(writes') = Len(writes) + 1 /\ writes'[Len(writes')].err) =>
             (/\ framesDropped' = framesDropped + 1
              /\ pace'.pc = "scan"
              /\ loopKills' = loopKills
              /\ regKills' = regKills
              /\ proc' = proc)]_vars

\* A unit was forwarded after the write of an earlier one had failed.
C21_ForwardedAfterFailure ==
    \E i \in FailedWrites : \E j \in 1..Len(writes) :
        /\ i < j
        /\ writes[i].unit < writes[j].unit
        /\ framesDropped >= 1

\* C22: when cmd.Start() fails, startFFmpeg returns and leaves the session
\* as it was: still registered if it was, not cancelled or closed by the
\* failure, with no subprocess handle attached then or later
\* (has_ffmpeg false); no subprocess exists, and the flow never reaches its
\* delivery loop, so no frame is delivered or counted for the session.
C22_SpawnFailureLeavesSession ==
    /\ [](\A s \in Sessions :
            proc[s] = "none" =>
                (~FFmpegCmd[s] /\ ff[s] \in {"none", "sleep", "checked", "done"}))
    /\ [][\A s \in Sessions :
            /\ (ff[s] = "checked" /\ ff'[s] = "done") =>
                  /\ proc'[s] = "none"
                  /\ ~FFmpegCmd'[s]
                  /\ (s \in sessions') = (s \in sessions)
                  /\ cancelled'[s] = cancelled[s]
                  /\ pcState'[s] = pcState[s]
                  /\ loopKills'[s] = loopKills[s]
                  /\ regKills'[s] = regKills[s]
            /\ (ff[s] = "done" /\ proc[s] = "none") =>
                  (ff'[s] = "done" /\ proc'[s] = "none")]_vars

\* The spawn failed for a live session: it is registered, not cancelled,
\* and has no encoder.
C22_RegisteredEncoderless ==
    \E s \in Sessions :
        /\ ff[s] = "done"
        /\ proc[s] = "none"
        /\ ~cancelled[s]
        /\ s \in sessions
        /\ ~FFmpegCmd[s]

\* C23: at end of stream the split function, called on an empty buffer,
\* returns no token and advance 0 and the scanner stops; called on a
\* non-empty buffer it returns a non-empty token and an advance greater
\* than 0. Hence once the stream has ended the scanner stops after
\* finitely many calls, with every byte of the stream consumed.
C23_FinalFlush ==
    /\ [][(scanEOF /\ scanSt = "split") =>
             IF Buffered = <<>>
             THEN /\ scanNALUs(Buffered, TRUE) = NoToken
                  /\ tokens' = tokens
                  /\ rdStart' = rdStart
                  /\ scanSt' = "done"
             ELSE /\ scanNALUs(Buffered, TRUE).has
                  /\ scanNALUs(Buffered, TRUE).token # <<>>
                  /\ scanNALUs(Buffered, TRUE).advance > 0
                  /\ Len(tokens') = Len(tokens) + 1
                  /\ tokens'[Len(tokens')] # <<>>
                  /\ rdStart' > rdStart]_vars
    /\ (scanEOF ~> (scanSt = "done" /\ rdStart = Len(stream)))

\* The scanner stopped at the end of a stream whose trailing bytes it
\* emitted as a final unit.
C23_TrailingEmitted ==
    /\ scanSt = "done"
    /\ scanEOF
    /\ Len(tokens) >= 2
    /\ rdStart = Len(stream)

\* Everything of the sessions other than id is as it was: registry entry,
\* subprocess handle, cancellation state, delivery flow and subprocess.
OthersUntouched(id) ==
    \A o \in Ids \ {id} :
        /\ (o \in sessions') = (o \in sessions)
        /\ FFmpegCmd'[o] = FFmpegCmd[o]
        /\ cancelled'[o] = cancelled[o]
        /\ ff'[o] = ff[o]
        /\ proc'[o] = proc[o]
        /\ regKills'[o] = regKills[o]
        /\ loopKills'[o] = loopKills[o]
        /\ pcState'[o] = pcState[o]

\* C24: updateSessionFFmpeg(id, cmd), the handling of a terminal
\* notification of session id (sessionCancel, unregisterSession(id),
\* pc.Close) and the exit of the encoder of session id (with the delivery
\* loop's return that follows it) leave every other session's registry
\* entry, subprocess handle, cancellation state and delivery flow
\* unchanged.
C24_ScopedToOneSession ==
    [][\A id \in Ids :
          (\/ updateSessionFFmpeg(id)
           \/ HandleTerminalCancel(id)
           \/ HandleTerminalUnregister(id)
           \/ HandleTerminalClose(id)
           \/ ProcessExit(id)
           \/ FFmpegScanEnd(id)) => OthersUntouched(id)]_vars

\* One session was torn down after its encoder had exited while another
\* one goes on streaming.
C24_OneDownOneStreaming ==
    \E id \in Ids : \E o \in Ids \ {id} :
        /\ id \notin sessions
        /\ cancelled[id]
        /\ ff[id] = "done"
        /\ proc[id] = "exited"
        /\ o \in sessions
        /\ FFmpegCmd[o]
        /\ ~cancelled[o]
        /\ ff[o] = "scan"
        /\ proc[o] = "running"

\* C25: with the delivery loops of several sessions counting concurrently,
\* framesProcessed and framesDropped never decrease and framesDropped is at
\* most framesProcessed in every state.
C25_CountersMonotonic ==
    /\ [](0 <= framesDropped /\ framesDropped <= framesProcessed)
    /\ [][framesProcessed' >= framesProcessed /\ framesDropped' >= framesDropped]_vars

\* Two loops at once are between counting a failed write as processed and
\* counting it as dropped, after an earlier drop.
C25_ConcurrentDrops ==
    /\ errPending >= 2
    /\ framesDropped >= 1
    /\ framesProcessed = framesDropped + errPending

\* C26: the active-stream gauge is never negative, and once every
\* notification has been handled it equals the number of sessions whose
\* connection state is Connected.
C26_GaugeCountsConnected ==
    /\ activeStreams >= 0
    /\ (\A s \in Sessions : connNotif[s] = 0 /\ hPending[s] = 0) =>
          activeStreams = Cardinality({s \in Sessions : pcState[s] = "connected"})

\* C27: a session that was registered and is no longer in the registry has
\* been cancelled, and every step that removes a session from the registry
\* leaves it cancelled: the handler, the setup failure paths, the sweep and
\* the shutdown cleanup cancel no later than they remove.
C27_RemovedImpliesCancelled ==
    /\ [](\A s \in Sessions :
            (offer[s] \in {"setup", "answered", "failed"} /\ s \notin sessions) =>
                cancelled[s])
    /\ [][\A s \in Sessions :
            (s \in sessions /\ s \notin sessions') => cancelled'[s]]_vars

\* A session was removed, by the sweep or by the shutdown cleanup, before
\* any handler ran for it.
C27_RemovedBeforeHandler ==
    \E s \in Sessions :
        /\ offer[s] = "answered"
        /\ s \notin sessions
        /\ cancelled[s]
        /\ decs[s] = 0
        /\ hCancelled[s] = 0

\* The concatenation of a sequence of tokens.
RECURSIVE Concat(_)
Concat(toks) ==
    IF toks = <<>> THEN <<>> ELSE Head(toks) \o Concat(Tail(toks))

\* C28: a call of the split function that returns a token returns the
\* advance equal to the token's length, the token being the prefix of the
\* buffered data of that length; hence the tokens returned so far,
\* concatenated, are the bytes consumed so far, and once the scanner has
\* stopped at the end of the stream they are the whole stream.
C28_TokensPartitionStream ==
    /\ [](scanSt = "split" =>
            LET r == scanNALUs(Buffered, scanEOF)
            IN  r.has => (/\ r.advance = Len(r.token)
                          /\ r.advance <= Len(Buffered)
                          /\ r.token = Slice(Buffered, 0, r.advance)))
    /\ [](Concat(tokens) = Slice(stream, 0, rdStart))
    /\ [](scanSt = "done" => Concat(tokens) = stream)

\* The scanner stopped at the end of a stream it cut into three tokens or
\* more, one of them led by a 3-byte start code.
C28_WholeStreamCut ==
    /\ scanSt = "done"
    /\ Len(tokens) >= 3
    /\ \E k \in 1..Len(tokens) : HasPrefix(tokens[k], StartCode3)
    /\ Concat(tokens) = stream

=============================================================================
